---- MODULE Spec2Model ----
(***************************************************************************)
(* Model of tender/services/abcp_step1.py (run_abcp_pricing and its        *)
(* helpers) of the ABCP tender portal, of the job status set by            *)
(* views.tender_step1, and of the login by one-time code of                *)
(* views.login_step1 / login_step2.                                        *)
(*                                                                         *)
(* Spec is a run of tender_step1; SpecExtract and SpecSearch apply         *)
(* extract_row_from_item and call_search_articles to inputs of their own;  *)
(* SpecLogin interleaves the login requests of two browser sessions.       *)
(*                                                                         *)
(* Text is modelled as a sequence of Unicode code points, so that          *)
(* str.upper, str.strip, re.sub and the code-point ordering used by the    *)
(* sort are computed, not assumed.  A Python value is a tagged record:     *)
(* None, Str(s) or Num(n); Truthy is Python's truth test used by `or`.     *)
(***************************************************************************)
EXTENDS Naturals, Sequences, FiniteSets, TLC

\* ------------------------------------------------------------------ bounds
\* Most rows of the input sheet.
MaxRows == 2
\* Most offers returned by the search endpoint over one run.
MaxOffers == 2
\* Most one-time codes created by login_step1.
MaxCodes == 2

\* ------------------------------------------------------- python values
None == [t |-> "none"]
Str(s) == [t |-> "str", v |-> s]
Num(n) == [t |-> "num", v |-> n]
\* a missing spreadsheet cell (float NaN): not None, and dropped by dropna
NaN == [t |-> "nan"]
EmptyStr == Str(<< >>)

\* bool(x) for the values above (NaN is a non-zero float, hence true)
Truthy(x) ==
  CASE x.t = "none" -> FALSE
    [] x.t = "str" -> x.v # << >>
    [] x.t = "num" -> x.v # 0
    [] OTHER -> TRUE

\* a or b, a or b or c
Or2(a, b) == IF Truthy(a) THEN a ELSE b
Or3(a, b, c) == Or2(a, Or2(b, c))
Or4(a, b, c, d) == Or2(a, Or3(b, c, d))

\* ------------------------------------------------------------ text
\* str.isspace for one code point (tab, LF, VT, FF, CR, space)
IsSpace(c) == c \in {9, 10, 11, 12, 13, 32}

\* str.upper for one code point (the Latin letters a-z)
UpperChar(c) == IF c >= 97 /\ c <= 122 THEN c - 32 ELSE c

Upper(s) == [k \in 1..Len(s) |-> UpperChar(s[k])]

\* the character class [\s\-./] of normalize_article
IsNormStripped(c) == IsSpace(c) \/ c \in {45, 46, 47}

\* str.strip(): drop leading and trailing whitespace
RECURSIVE LStrip(_)
LStrip(s) == IF s # << >> /\ IsSpace(Head(s)) THEN LStrip(Tail(s)) ELSE s

RECURSIVE RStrip(_)
RStrip(s) ==
  IF s # << >> /\ IsSpace(s[Len(s)]) THEN RStrip(SubSeq(s, 1, Len(s) - 1)) ELSE s

Strip(s) == RStrip(LStrip(s))

\* str(x or "") for a value holding text
TextOf(x) == IF Truthy(x) /\ x.t = "str" THEN x.v ELSE << >>

\* normalize_article: upper, then remove whitespace, '-', '.', '/'
normalize_article(x) == SelectSeq(Upper(TextOf(x)), LAMBDA c : ~IsNormStripped(c))

\* s < t in Python: code-point lexicographic order, a proper prefix first
RECURSIVE StrLess(_, _)
StrLess(s, t) ==
  IF t = << >> THEN FALSE
  ELSE IF s = << >> THEN TRUE
  ELSE IF Head(s) # Head(t) THEN Head(s) < Head(t)
  ELSE StrLess(Tail(s), Tail(t))

\* Python's str(n) for a natural number
RECURSIVE Digits(_)
Digits(n) == IF n < 10 THEN << 48 + n >> ELSE Digits(n \div 10) \o << 48 + (n % 10) >>

\* str(x) for a text or a number
StrOf(x) == IF x.t = "num" THEN Digits(x.v) ELSE IF x.t = "str" THEN x.v ELSE << >>

\* index of the first '>' (62) in s, 0 when there is none
RECURSIVE FirstGt(_, _)
FirstGt(s, k) ==
  IF k > Len(s) THEN 0 ELSE IF s[k] = 62 THEN k ELSE FirstGt(s, k + 1)

\* re.sub(r"<[^>]+>", " ", s): every tag becomes one space
RECURSIVE SubTags(_)
SubTags(s) ==
  IF s = << >> THEN << >>
  ELSE IF Head(s) = 60 /\ FirstGt(s, 2) > 2
       THEN << 32 >> \o SubTags(SubSeq(s, FirstGt(s, 2) + 1, Len(s)))
       ELSE << Head(s) >> \o SubTags(Tail(s))

\* re.sub(r"\s+", " ", s): a run of whitespace becomes one space
RECURSIVE SubSpaces(_)
SubSpaces(s) ==
  IF s = << >> THEN << >>
  ELSE IF IsSpace(Head(s))
       THEN << 32 >> \o SubSpaces(LStrip(s))
       ELSE << Head(s) >> \o SubSpaces(Tail(s))

\* the cleaning shared by extract_stock_name and extract_deadline_text
StripMarkup(s) == Strip(SubSpaces(SubTags(s)))

\* ------------------------------------------------------------ offers
\* The keys of a raw offer the code reads; item.get(k) is None when absent.
ItemKeys ==
  {"brand", "brandFix", "number", "numberFix", "description",
   "availability", "rest", "qty", "price", "priceOut", "priceInSiteCurrency",
   "distributorCode", "distributorId", "officeName", "stockName",
   "warehouseName", "storageName", "deliveryOffice", "supplierDescription",
   "deadlineReplace"}

\* an offer with every key absent
NoItem == [k \in ItemKeys |-> None]

\* the literal returned by extract_deadline_text when no lead time is given
\* ("na sklade", in stock), as code points
InStockText == << 1085, 1072, 32, 1089, 1082, 1083, 1072, 1076, 1077 >>

extract_stock_name(item) ==
  LET raw == Or2(item["officeName"], Or2(item["stockName"],
               Or4(item["warehouseName"], item["storageName"],
                   item["deliveryOffice"], item["supplierDescription"])))
  IN IF ~Truthy(raw) THEN EmptyStr ELSE Str(StripMarkup(StrOf(raw)))

extract_deadline_text(item) ==
  LET raw == item["deadlineReplace"]
  IN IF Truthy(raw) /\ StripMarkup(StrOf(raw)) # << >>
     THEN Str(StripMarkup(StrOf(raw)))
     ELSE Str(InStockText)

extract_supplier_name(item) ==
  IF Truthy(item["distributorCode"]) THEN Str(StrOf(item["distributorCode"]))
  ELSE IF item["distributorId"] # None THEN Str(StrOf(item["distributorId"]))
  ELSE EmptyStr

\* faulty variant: a supplier the directory does not know is shown by its id
extract_supplier_full_name_id(item, dmap) ==
  LET id == item["distributorId"]
  IN IF id = None THEN EmptyStr
     ELSE IF id.t = "num" /\ id.v \in DOMAIN dmap THEN Or2(dmap[id.v], EmptyStr)
     ELSE Str(StrOf(id))

\* distributors_map is a function from supplier ids to display names
extract_supplier_full_name(item, dmap) ==
  LET id == item["distributorId"]
  IN IF id = None THEN EmptyStr
     ELSE IF id.t = "num" /\ id.v \in DOMAIN dmap THEN Or2(dmap[id.v], EmptyStr)
     ELSE EmptyStr

\* the value stored in the requested-quantity column of a row
QtyCell(rq_qty) == IF rq_qty # None THEN rq_qty ELSE EmptyStr

\* faulty variant: the corrected field before the raw field
ResolveFixFirst(raw, fix, rq) == Or3(fix, raw, rq)

\* the resulting brand / article of a row: item.get("brand") or
\* item.get("brandFix") or rq_brand, and the same for number / numberFix
ResolveField(raw, fix, rq) == Or3(raw, fix, rq)

\* extract_row_from_item; src is the position of the request in the run (a
\* history field: the code keeps no such column)
extract_row_from_item(item, profile_id, rq_brand, rq_article, rq_qty, dmap, src) ==
  [ rq_brand |-> rq_brand,
    rq_article |-> rq_article,
    brand |-> ResolveField(item["brand"], item["brandFix"], rq_brand),
    article |-> ResolveField(item["number"], item["numberFix"], rq_article),
    description |-> Or2(item["description"], EmptyStr),
    rq_qty |-> QtyCell(rq_qty),
    availability |-> Or4(item["availability"], item["rest"], item["qty"], EmptyStr),
    profile |-> profile_id,
    supplier |-> extract_supplier_name(item),
    stock |-> extract_stock_name(item),
    supplier_full_name |-> extract_supplier_full_name(item, dmap),
    deadline |-> extract_deadline_text(item),
    price |-> Or4(item["price"], item["priceOut"], item["priceInSiteCurrency"], EmptyStr),
    src |-> src ]

\* ------------------------------------------------------------ requests
\* faulty variant: only a missing article drops the row
dropna_article_only(rows) == SelectSeq(rows, LAMBDA r : r.article # NaN)

\* df_in[[brand, article, qty]].dropna(subset=[brand, article])
dropna(rows) == SelectSeq(rows, LAMBDA r : r.brand # NaN /\ r.article # NaN)

\* faulty variant: no row is dropped
drop_duplicates_none(rows) == rows

\* DataFrame.drop_duplicates(): the first of every group of equal rows stays
RECURSIVE drop_duplicates(_)
drop_duplicates(rows) ==
  IF rows = << >> THEN << >>
  ELSE LET init == drop_duplicates(SubSeq(rows, 1, Len(rows) - 1))
           last == rows[Len(rows)]
       IN IF \E k \in 1..Len(init) : init[k] = last THEN init ELSE Append(init, last)

\* the records the batch loop iterates (pairs)
ExtractPairs(rows) == drop_duplicates(dropna(rows))

\* brand = str(rec[brand_col]).strip(), article likewise
ReqBrand(rec) == Str(Strip(StrOf(rec.brand)))
ReqArticle(rec) == Str(Strip(StrOf(rec.article)))

\* ------------------------------------------------------------ http
\* What a GET comes to: requests.get raises (time-out, refused connection),
\* or a response arrives with a status and a body.  A body is text that is
\* not JSON, or a JSON array, a JSON object (errorCode: it has that key), or
\* any other JSON value.
NoResponse == [transport |-> "failed"]
Response(st, b) == [transport |-> "ok", status |-> st, body |-> b]
NotJson == [j |-> "invalid"]
JsonArray(v) == [j |-> "array", v |-> v]
JsonObject(e) == [j |-> "object", errorCode |-> e]
JsonScalar == [j |-> "scalar"]

\* an exception raised inside the try block
Raised == [j |-> "raised"]

\* faulty variant: the status of the response is not looked at
FetchJsonAnyStatus(resp) ==
  IF resp.transport # "ok" THEN Raised
  ELSE IF resp.body = NotJson THEN Raised
  ELSE resp.body

\* r = requests.get(...); r.raise_for_status(); data = r.json(): the decoded
\* body, or Raised when the GET raises, when the status is a client or server
\* error (raise_for_status raises for 400..599 only) or when the body is not
\* JSON
FetchJson(resp) ==
  IF resp.transport # "ok" THEN Raised
  ELSE IF resp.status >= 400 /\ resp.status < 600 THEN Raised
  ELSE IF resp.body = NotJson THEN Raised
  ELSE resp.body

\* ------------------------------------------------------------ search
\* call_search_articles on what its GET comes to: the decoded array, [] for
\* an object with an errorCode, for any other value and for any exception
call_search_articles(resp) ==
  LET data == FetchJson(resp)
  IN IF data = Raised THEN << >>
     ELSE IF data.j = "object" /\ data.errorCode THEN << >>
     ELSE IF data.j = "array" THEN data.v
     ELSE << >>

\* ------------------------------------------------------------ report
\* the two values of the match-group column, as code points
\* ("Zaprashivaemyj artikul": the requested article; "Kross": a cross)
ExactLabel ==
  << 1047, 1072, 1087, 1088, 1072, 1096, 1080, 1074, 1072, 1077, 1084, 1099,
     1081, 32, 1072, 1088, 1090, 1080, 1082, 1091, 1083 >>
CrossLabel == << 1050, 1088, 1086, 1089, 1089 >>

\* faulty variant: the article alone decides
IsExactArticleOnly(r) ==
  normalize_article(r.article) = normalize_article(r.rq_article)

\* the _is_exact column
IsExact(r) ==
  /\ normalize_article(r.brand) = normalize_article(r.rq_brand)
  /\ normalize_article(r.article) = normalize_article(r.rq_article)

\* the match-group column added to a row
WithGroup(r) ==
  ("group" :> Str(IF IsExact(r) THEN ExactLabel ELSE CrossLabel)) @@ r

\* faulty variant: the requested quantity stays on every row
ClearQtyNever(r) == r

\* the requested quantity is cleared on rows that are not exact
ClearQty(r) ==
  IF r.group # Str(ExactLabel) THEN [r EXCEPT !.rq_qty = EmptyStr] ELSE r

\* the five sort keys of sort_values
SortKey(r) == << r.rq_brand.v, r.rq_article.v, r.group.v, r.brand.v, r.article.v >>

\* lexicographic order of two key tuples, from position k on
RECURSIVE KeyLessFrom(_, _, _)
KeyLessFrom(a, b, k) ==
  IF k > Len(a) THEN FALSE
  ELSE IF a[k] # b[k] THEN StrLess(a[k], b[k])
  ELSE KeyLessFrom(a, b, k + 1)

\* faulty variant: the requested brand and article alone are compared
KeyLessTwoKeys(a, b) == KeyLessFrom(<< a[1], a[2] >>, << b[1], b[2] >>, 1)

KeyLess(a, b) == KeyLessFrom(a, b, 1)

\* faulty variant: the rows stay in the order they were accumulated
InsertSortedAppend(r, sorted) == Append(sorted, r)

\* a row goes after the rows whose key is less or equal (the sort is stable)
InsertSorted(r, sorted) ==
  LET n == Cardinality({k \in 1..Len(sorted) : ~KeyLess(SortKey(r), SortKey(sorted[k]))})
  IN SubSeq(sorted, 1, n) \o << r >> \o SubSeq(sorted, n + 1, Len(sorted))

\* DataFrame.sort_values(by = the five keys, ascending); pandas sorts several
\* columns with a stable lexsort, so rows with equal keys keep their order
RECURSIVE sort_values(_)
sort_values(rows) ==
  IF rows = << >> THEN << >>
  ELSE InsertSorted(rows[Len(rows)], sort_values(SubSeq(rows, 1, Len(rows) - 1)))

\* the column order of the offers sheet when there are rows
ReorderedColumns ==
  << "rq_brand", "rq_article", "group", "brand", "article", "description",
     "rq_qty", "availability", "price", "deadline", "stock", "supplier",
     "supplier_full_name", "profile" >>

\* data_columns, the columns of the offers sheet when there are no rows
data_columns ==
  << "rq_brand", "rq_article", "group", "brand", "article", "description",
     "rq_qty", "availability", "profile", "supplier", "stock",
     "supplier_full_name", "deadline", "profile" >>

\* err_columns
err_columns == << "rq_brand", "rq_article", "rq_qty", "comment" >>

\* the rows of df_data built from all_rows
BuildData(rows) ==
  sort_values([k \in 1..Len(rows) |-> ClearQty(WithGroup(rows[k]))])

\* ------------------------------------------------------------ directory
\* load_distributors_map on what its GET comes to: {id: publicName or name
\* or str(id)} over the rows that carry an id, {} on any failure
RECURSIVE DistributorsOf(_)
DistributorsOf(rows) ==
  IF rows = << >> THEN << >>
  ELSE LET init == DistributorsOf(SubSeq(rows, 1, Len(rows) - 1))
           row == rows[Len(rows)]
       IN IF row.id = None THEN init
          ELSE (row.id.v :> Str(StrOf(Or3(row.publicName, row.name, row.id)))) @@ init

load_distributors_map(resp) ==
  LET data == FetchJson(resp)
  IN IF data = Raised THEN << >>
     ELSE IF data.j # "array" THEN << >>
     ELSE DistributorsOf(data.v)

\* ------------------------------------------------------------ inputs
\* the environment variables _ensure_env requires
EnvVars == {"ABCP_HOST", "ABCP_USERLOGIN", "ABCP_USERPSW"}

\* the roles detect_columns can find among the headers of the sheet
Roles == {"brand", "article", "qty"}

\* cells of the input sheet: "B", "b ", a missing cell; "1-", a missing
\* cell; 1, 2
CellBrands == {Str(<< 66 >>), Str(<< 98, 32 >>), NaN}
CellArticles == {Str(<< 49, 45 >>), NaN}
CellQtys == {Num(1), Num(2)}

\* the rows of a sheet with the given columns; without a quantity column
\* every record carries None (df_pairs["__qty"] = None)
SheetRows(cols) ==
  [brand : CellBrands, article : CellArticles,
   qty : IF "qty" \in cols THEN CellQtys ELSE {None}]

SeqsUpTo(S, n) == UNION {[1..k -> S] : k \in 0..n}

Sheets == UNION {[cols : {c}, rows : SeqsUpTo(SheetRows(c), MaxRows)] : c \in SUBSET Roles}

\* offers the search endpoint returns in a run: brand "A" or "B", number
\* "1", price 100 or 200, supplier 7
PipeItems ==
  {[NoItem EXCEPT !["brand"] = Str(b), !["number"] = Str(<< 49 >>),
                  !["price"] = Num(p), !["distributorId"] = Num(7)] :
     b \in {<< 65 >>, << 66 >>}, p \in {100, 200}}

\* the bodies of a response that are not an array
OtherBodies == {NotJson, JsonObject(TRUE), JsonObject(FALSE), JsonScalar}

\* what one GET of search/articles comes to in a run: no response, a
\* server error, a body of another shape, or an array of offers
SearchResponses ==
  {NoResponse, Response(500, NotJson)}
    \cup {Response(200, b) : b \in OtherBodies}
    \cup {Response(200, JsonArray(b)) : b \in SeqsUpTo(PipeItems, MaxOffers)}

\* the supplier directory: no row, or supplier 7 named "S"
DirBodies ==
  OtherBodies \cup
    {JsonArray(b) : b \in
       {<< >>, << [id |-> Num(7), publicName |-> None, name |-> Str(<< 83 >>)] >>}}

\* what the GET of cp/distributors comes to: no response, or a response
\* with status 200, 203, 404 or 500
DirResponses ==
  {NoResponse} \cup {Response(st, b) : st \in {200, 203, 404, 500}, b \in DirBodies}

\* what the GET of call_search_articles on its own comes to
AllSearchResponses ==
  {NoResponse}
    \cup {Response(st, b) : st \in {200, 203, 404, 500},
                            b \in OtherBodies \cup
                                  {JsonArray(v) : v \in SeqsUpTo(PipeItems, MaxOffers)}}

\* format_profile_name(job.client_profile.name), a fixed label "P"
ProfileLabel == Str(<< 80 >>)

\* offers handed to extract_row_from_item on its own: each field absent or
\* present, the first price and the first availability field also 0
ExtractItems ==
  {[NoItem EXCEPT !["brand"] = b, !["brandFix"] = bf, !["number"] = n,
                  !["numberFix"] = nf, !["price"] = pr, !["priceOut"] = po,
                  !["priceInSiteCurrency"] = ps, !["availability"] = av,
                  !["rest"] = re, !["qty"] = q] :
     b \in {None, EmptyStr, Str(<< 66 >>)}, bf \in {None, Str(<< 86 >>)},
     n \in {None, EmptyStr, Str(<< 49 >>)}, nf \in {None, Str(<< 50 >>)},
     pr \in {None, Num(0), Num(100)}, po \in {None, Num(50)},
     ps \in {None, Num(70)}, av \in {None, Num(0), Num(5)},
     re \in {None, Num(3)}, q \in {None, Num(4)}}

\* ------------------------------------------------------------ state
VARIABLES
  env,               \* the ABCP_* variables that are set
  df_in,             \* the input sheet: detected roles and rows
  pc,                \* position of the request in tender_step1 / run_abcp_pricing
  status,            \* job.status
  log,               \* job.log, a sequence of messages <<kind, a, b>>
  result_file,       \* job.result_file is set
  workbook,          \* history: the result workbook is on disk
  distributors_map,
  calls,             \* history: number of GETs issued by the run
  inflight,          \* history: the GETs issued and not yet over
  dir_resp,          \* history: what the GET of cp/distributors came to
  pairs,             \* the records the batch loop iterates
  i,                 \* number of records the loop has taken
  all_rows,
  errors_rows,
  failed,            \* history: positions of the requests whose GET failed
  returned,          \* history: number of offers call_search_articles returned
  df_data,           \* rows of the offers sheet
  df_columns,        \* columns of the offers sheet
  df_errors,         \* rows of the unmatched sheet
  x_item,            \* extract_row_from_item on its own: the offer
  x_rq,              \*   the request record
  x_row,             \*   the row returned
  s_resp,            \* call_search_articles on its own: what its GET came to
  s_items,           \*   the value returned
  login_codes,       \* the LoginCode rows of the user, oldest first
  session,           \* per browser session: 2fa_user_id is set, a user is logged in
  req,               \* per browser session: the login_step2 request in progress
  logins             \* history: <<session, row>> of every login() of login_step2

jobVars == << status, log, result_file >>
netVars == << calls, inflight, dir_resp >>
loopVars == << pairs, i, all_rows, errors_rows, failed, returned >>
reportVars == << df_data, df_columns, df_errors >>
extractVars == << x_item, x_rq, x_row >>
searchVars == << s_resp, s_items >>
loginVars == << login_codes, session, req, logins >>
asideVars == << extractVars, searchVars, loginVars >>

vars ==
  << env, df_in, pc, jobVars, workbook, distributors_map, netVars, loopVars,
     reportVars, asideVars >>

NoRequest == [brand |-> None, article |-> None, qty |-> None]

\* df_in while there is no sheet in memory: before read_excel, and once the
\* records are formed (the sheet is not read again after step 4)
Released == [released |-> TRUE]

\* the browser sessions
Clients == {1, 2}

\* the job as tender_step1 creates it, before anything ran
Blank ==
  /\ status = "new"
  /\ log = << >>
  /\ result_file = FALSE
  /\ workbook = FALSE
  /\ distributors_map = << >>
  /\ calls = 0
  /\ inflight = {}
  /\ dir_resp = NoResponse
  /\ pairs = << >>
  /\ i = 0
  /\ all_rows = << >>
  /\ errors_rows = << >>
  /\ failed = {}
  /\ returned = 0
  /\ df_data = << >>
  /\ df_columns = << >>
  /\ df_errors = << >>

\* nothing handed to extract_row_from_item
NoExtract ==
  /\ x_item = NoItem
  /\ x_rq = NoRequest
  /\ x_row = None

\* nothing handed to call_search_articles
NoSearch ==
  /\ s_resp = NoResponse
  /\ s_items = << >>

\* no code issued, nobody pending or logged in
NoLogin ==
  /\ login_codes = << >>
  /\ session = [c \in Clients |-> [pending |-> FALSE, user |-> FALSE]]
  /\ req = [c \in Clients |-> [pc |-> "idle", row |-> 0]]
  /\ logins = << >>

Init ==
  /\ env \in SUBSET EnvVars
  /\ df_in = Released
  /\ pc = "created"
  /\ Blank
  /\ NoExtract
  /\ NoSearch
  /\ NoLogin

\* ------------------------------------------------------------ actions
\* _append_log(job, message): the message joins job.log and the job is saved
AppendLog(l, m) == Append(l, m)

\* an early return of run_abcp_pricing with STATUS_ERROR and a message
Abort(l, m) ==
  /\ status' = "error"
  /\ log' = AppendLog(l, m)
  /\ pc' = "returned"
  /\ UNCHANGED << result_file, workbook, env, distributors_map, netVars,
                  loopVars, reportVars, asideVars >>

\* tender_step1: job.status = STATUS_PROCESSING; job.save()
StartProcessing ==
  /\ pc = "created"
  /\ status' = "in_progress"
  /\ pc' = "start"
  /\ UNCHANGED << log, result_file, workbook, env, df_in, distributors_map,
                  netVars, loopVars, reportVars, asideVars >>

\* faulty variant: the configuration is not checked
ensure_env_unchecked(e) == TRUE

\* _ensure_env: the three variables are set
ensure_env(e) == e = EnvVars

\* run_abcp_pricing, steps 0 and 1: the start message and _ensure_env
RunStart ==
  /\ pc = "start"
  /\ IF ~ensure_env(env)
     THEN Abort(AppendLog(log, << "start", 0, 0 >>), << "env_missing", 0, 0 >>)
     ELSE /\ log' = AppendLog(log, << "start", 0, 0 >>)
          /\ pc' = "read_input"
          /\ UNCHANGED << status, result_file, workbook, env, distributors_map,
                          netVars, loopVars, reportVars, asideVars >>
  /\ UNCHANGED df_in

\* step 2: the path of the input file, its existence, read_excel, df_in.empty
ReadInput ==
  /\ pc = "read_input"
  /\ \E outcome \in {"no_path", "not_found", "unreadable", "ok"} :
       IF outcome # "ok"
       THEN Abort(log, << outcome, 0, 0 >>) /\ UNCHANGED df_in
       ELSE \E sheet \in Sheets :
              /\ df_in' = sheet
              /\ IF sheet.rows = << >>
                 THEN Abort(log, << "empty", 0, 0 >>)
                 ELSE /\ pc' = "detect"
                      /\ UNCHANGED << jobVars, workbook, env, distributors_map,
                                      netVars, loopVars, reportVars, asideVars >>

\* step 3: detect_columns raises unless a brand and an article column exist
DetectColumns ==
  /\ pc = "detect"
  /\ IF ~({"brand", "article"} \subseteq df_in.cols)
     THEN Abort(log, << "no_columns", 0, 0 >>)
     ELSE /\ pc' = "load_dir"
          /\ UNCHANGED << jobVars, workbook, env, distributors_map, netVars,
                          loopVars, reportVars, asideVars >>
  /\ UNCHANGED df_in

\* faulty variant: the GET stays outstanding after its result is taken
CompleteNever(calls_out, call) == calls_out

\* requests.get has returned or raised: the GET is over
Complete(calls_out, call) == calls_out \ {call}

\* step 3.5, load_distributors_map: the GET of cp/distributors is sent (the
\* variables are set here, so its own check of them passes)
IssueDirectory ==
  /\ pc = "load_dir"
  /\ calls' = calls + 1
  /\ inflight' = inflight \cup {calls + 1}
  /\ pc' = "dir_wait"
  /\ UNCHANGED << jobVars, workbook, env, df_in, distributors_map, dir_resp,
                  loopVars, reportVars, asideVars >>

\* step 3.5: the GET is over, the directory is built and the log tells
LoadDistributors ==
  /\ pc = "dir_wait"
  /\ \E resp \in DirResponses :
       /\ dir_resp' = resp
       /\ distributors_map' = load_distributors_map(resp)
       /\ log' = AppendLog(log,
                   IF distributors_map' # << >>
                   THEN << "distributors", Cardinality(DOMAIN distributors_map'), 0 >>
                   ELSE << "no_distributors", 0, 0 >>)
  /\ inflight' = Complete(inflight, calls)
  /\ pc' = "pairs"
  /\ UNCHANGED << status, result_file, workbook, env, df_in, calls, loopVars,
                  reportVars, asideVars >>

\* step 4: the unique (brand, article, qty) records
FormPairs ==
  /\ pc = "pairs"
  /\ pairs' = ExtractPairs(df_in.rows)
  /\ log' = AppendLog(log, << "unique", Len(pairs'), 0 >>)
  /\ i' = 0
  /\ all_rows' = << >>
  /\ errors_rows' = << >>
  /\ dir_resp' = NoResponse
  /\ pc' = "loop"
  /\ UNCHANGED << status, result_file, workbook, env, df_in, distributors_map,
                  calls, inflight, failed, returned, reportVars, asideVars >>

\* the cadence of the progress message
ProgressEvery == 20

\* the row of the unmatched sheet for a request (src: history, as in the rows)
ErrorRow(brand, article, rq_qty, src) ==
  [ rq_brand |-> brand, rq_article |-> article, rq_qty |-> QtyCell(rq_qty),
    comment |-> "no_offers_or_api_error", src |-> src ]

\* faulty variant: a request without offers leaves no row in the unmatched list
NextErrorsNever(errors, items, brand, article, rq_qty, n) == errors

\* errors_rows after the pass for record n: one row when nothing came back
NextErrors(errors, items, brand, article, rq_qty, n) ==
  IF items = << >> THEN Append(errors, ErrorRow(brand, article, rq_qty, n)) ELSE errors

\* all_rows after the pass for record n: one row per offer, in the order returned
NextRows(rows, items, brand, article, rq_qty, dmap, n) ==
  rows \o [k \in 1..Len(items) |->
             extract_row_from_item(items[k], ProfileLabel, brand, article, rq_qty, dmap, n)]

\* job.log after the pass for record n of total: `continue` skips the
\* progress message of a request without offers
NextLog(l, items, n, total) ==
  IF items = << >> THEN l
  ELSE IF n % ProgressEvery = 0 \/ n = total
       THEN AppendLog(l, << "progress", n, total >>)
       ELSE l

\* the GET brought an array (history: the other outcomes count as failed)
Answered(resp) == FetchJson(resp).j = "array"

\* faulty variant: a failed GET ends the run
LoopPcStopOnFailure(resp) == IF ~Answered(resp) THEN "returned" ELSE "loop"

\* where the run is after a pass: in the loop, whatever the GET came to
LoopPc(resp) == "loop"

\* step 5, the head of the loop body for record i + 1: the GET of
\* search/articles is sent
IssueSearch ==
  /\ pc = "loop"
  /\ i < Len(pairs)
  /\ calls' = calls + 1
  /\ inflight' = inflight \cup {calls + 1}
  /\ pc' = "search_wait"
  /\ df_in' = Released
  /\ UNCHANGED << jobVars, workbook, env, distributors_map, dir_resp, loopVars,
                  reportVars, asideVars >>

\* step 5, the rest of the loop body for record i + 1: the GET is over
SearchStep ==
  /\ pc = "search_wait"
  /\ \E resp \in SearchResponses :
       LET n == i + 1
           rec == pairs[n]
           brand == ReqBrand(rec)
           article == ReqArticle(rec)
           items == call_search_articles(resp)
       IN /\ Len(all_rows) + Len(items) <= MaxOffers
          /\ i' = n
          /\ failed' = IF ~Answered(resp) THEN failed \cup {n} ELSE failed
          /\ returned' = returned + Len(items)
          /\ errors_rows' = NextErrors(errors_rows, items, brand, article, rec.qty, n)
          /\ all_rows' = NextRows(all_rows, items, brand, article, rec.qty,
                                  distributors_map, n)
          /\ log' = NextLog(log, items, n, Len(pairs))
          /\ pc' = LoopPc(resp)
  /\ inflight' = Complete(inflight, calls)
  /\ UNCHANGED << pairs, status, result_file, workbook, env, df_in,
                  distributors_map, calls, dir_resp, reportVars, asideVars >>

\* faulty variant: the unmatched sheet lists the last request first
ErrorsFrameReversed(rows) == [k \in 1..Len(rows) |-> rows[Len(rows) + 1 - k]]

\* pd.DataFrame(errors_rows)[err_columns]: the rows as accumulated
ErrorsFrame(rows) == rows

\* steps 6 and 7: the two sheets
BuildReport ==
  /\ pc = "loop"
  /\ i = Len(pairs)
  /\ IF all_rows # << >>
     THEN /\ df_data' = BuildData(all_rows)
          /\ df_columns' = ReorderedColumns
     ELSE /\ df_data' = << >>
          /\ df_columns' = data_columns
  /\ df_errors' = ErrorsFrame(errors_rows)
  /\ pc' = "write"
  /\ df_in' = Released
  /\ UNCHANGED << jobVars, workbook, env, distributors_map, netVars, loopVars,
                  asideVars >>

\* faulty variant: the job is done whatever the writer did
StatusAfterWriteDone(written) == "done"

\* job.status after the try block of step 8
StatusAfterWrite(written) == IF written THEN "done" ELSE "error"

\* step 8: output_dir.mkdir raises (outside the try block, so the exception
\* leaves run_abcp_pricing), or the writer raises inside it, or the workbook
\* is written
WriteReport ==
  /\ pc = "write"
  /\ \E outcome \in {"mkdir_raises", "write_raises", "written"} :
       CASE outcome = "mkdir_raises" ->
              /\ pc' = "raised"
              /\ UNCHANGED << jobVars, workbook >>
         [] outcome = "write_raises" ->
              /\ status' = StatusAfterWrite(FALSE)
              /\ log' = AppendLog(log, << "save_failed", 0, 0 >>)
              /\ pc' = "returned"
              /\ UNCHANGED << result_file, workbook >>
         [] outcome = "written" ->
              /\ workbook' = TRUE
              /\ result_file' = TRUE
              /\ status' = StatusAfterWrite(TRUE)
              /\ log' = AppendLog(log, << "ok", Len(df_data), Len(df_errors) >>)
              /\ pc' = "returned"
  /\ UNCHANGED << env, df_in, distributors_map, netVars, loopVars, reportVars,
                  asideVars >>

Next ==
  \/ StartProcessing
  \/ RunStart
  \/ ReadInput
  \/ DetectColumns
  \/ IssueDirectory
  \/ LoadDistributors
  \/ FormPairs
  \/ IssueSearch
  \/ SearchStep
  \/ BuildReport
  \/ WriteReport

Spec == Init /\ [][Next]_vars

\* the variables of the run while another function is looked at on its own
NoRun ==
  /\ env = EnvVars
  /\ df_in = Released
  /\ Blank

runVars ==
  << env, df_in, jobVars, workbook, distributors_map, netVars, loopVars, reportVars >>

\* ---------------------------------------- extract_row_from_item on its own
InitExtract ==
  /\ pc = "extract"
  /\ NoRun
  /\ NoSearch
  /\ NoLogin
  /\ x_item \in ExtractItems
  /\ x_rq \in SheetRows(Roles) \cup SheetRows({"brand", "article"})
  /\ x_rq.brand # NaN
  /\ x_rq.article # NaN
  /\ x_row = None

ExtractRow ==
  /\ pc = "extract"
  /\ x_row' = extract_row_from_item(x_item, ProfileLabel, ReqBrand(x_rq),
                                    ReqArticle(x_rq), x_rq.qty, << >>, 1)
  /\ pc' = "extracted"
  /\ UNCHANGED << x_item, x_rq, runVars, searchVars, loginVars >>

NextExtract == ExtractRow

SpecExtract == InitExtract /\ [][NextExtract]_vars

\* ---------------------------------------- call_search_articles on its own
InitSearch ==
  /\ pc = "search"
  /\ NoRun
  /\ NoExtract
  /\ NoLogin
  /\ s_resp \in AllSearchResponses
  /\ s_items = << >>

SearchArticles ==
  /\ pc = "search"
  /\ s_items' = call_search_articles(s_resp)
  /\ pc' = "searched"
  /\ UNCHANGED << s_resp, runVars, extractVars, loginVars >>

NextSearch == SearchArticles

SpecSearch == InitSearch /\ [][NextSearch]_vars

\* ---------------------------------------- login by a one-time code
\* the codes login_step1 can draw (f"{random.randint(0, 999999):06d}")
CodeValues == {"000000", "999999"}

\* LoginCode.objects.create(user=user, code=code): is_used defaults to
\* False; expired tells that created_at is more than 15 minutes ago
NewLoginCode(code) == [code |-> code, is_used |-> FALSE, expired |-> FALSE]

\* the rows filter(user, code, is_used=False, created_at__gte=valid_from) keeps
UnusedCodes(codes, code) ==
  {k \in 1..Len(codes) : codes[k].code = code /\ ~codes[k].is_used /\ ~codes[k].expired}

\* .order_by("-created_at").first(): the newest such row, 0 when there is none
FirstUnused(codes, code) ==
  IF UnusedCodes(codes, code) = {} THEN 0
  ELSE CHOOSE k \in UnusedCodes(codes, code) : \A j \in UnusedCodes(codes, code) : j <= k

InitLogin ==
  /\ pc = "login"
  /\ NoRun
  /\ NoExtract
  /\ NoSearch
  /\ NoLogin

\* login_step1, POST with the e-mail of the user: a code is created and
\* mailed; 2fa_user_id enters the session only when the mail went out
LoginStep1(c) ==
  /\ Len(login_codes) < MaxCodes
  /\ \E code \in CodeValues, sent \in BOOLEAN :
       /\ login_codes' = Append(login_codes, NewLoginCode(code))
       /\ session' = IF sent THEN [session EXCEPT ![c].pending = TRUE] ELSE session
  /\ UNCHANGED << req, logins, pc, runVars, extractVars, searchVars >>

\* time passes: the oldest code still valid gets older than 15 minutes
Expire ==
  /\ \E k \in 1..Len(login_codes) :
       /\ ~login_codes[k].expired
       /\ \A j \in 1..(k - 1) : login_codes[j].expired
       /\ login_codes' = [login_codes EXCEPT ![k].expired = TRUE]
  /\ UNCHANGED << session, req, logins, pc, runVars, extractVars, searchVars >>

\* login_step2, POST of a code, up to the query: without 2fa_user_id the
\* request is redirected; a code that matches no row is a form error
Step2Lookup(c) ==
  /\ req[c].pc = "idle"
  /\ session[c].pending
  /\ \E code \in CodeValues :
       LET k == FirstUnused(login_codes, code)
       IN IF k = 0 THEN UNCHANGED req
          ELSE req' = [req EXCEPT ![c] = [pc |-> "found", row |-> k]]
  /\ UNCHANGED << login_codes, session, logins, pc, runVars, extractVars, searchVars >>

\* login_step2, the rest: the row is saved with is_used = True, the user
\* is logged in and 2fa_user_id leaves the session
Step2Confirm(c) ==
  /\ req[c].pc = "found"
  /\ login_codes' = [login_codes EXCEPT ![req[c].row].is_used = TRUE]
  /\ session' = [session EXCEPT ![c] = [pending |-> FALSE, user |-> TRUE]]
  /\ logins' = Append(logins, << c, req[c].row >>)
  /\ req' = [req EXCEPT ![c] = [pc |-> "idle", row |-> 0]]
  /\ UNCHANGED << pc, runVars, extractVars, searchVars >>

NextLogin ==
  \/ \E c \in Clients : LoginStep1(c)
  \/ Expire
  \/ \E c \in Clients : Step2Lookup(c)
  \/ \E c \in Clients : Step2Confirm(c)

SpecLogin == InitLogin /\ [][NextLogin]_vars

\* ------------------------------------------------------------ properties
\* the two sheets are built and about to be written (they do not change
\* afterwards)
Built == pc = "write"

\* the positions of a sequence
Idx(q) == 1..Len(q)

\* the requests of the run that got no offer
ZeroOffer == {n \in 1..i : \A k \in Idx(all_rows) : all_rows[k].src # n}

\* C1: in every report each offer row is tagged with the exact-match label if
\* and only if its normalized brand and its normalized article equal the
\* normalized requested brand and article, and with the cross label otherwise.
C1_ClassificationLaw ==
  Built =>
    \A k \in Idx(df_data) :
      LET r == df_data[k]
          same == /\ normalize_article(r.brand) = normalize_article(r.rq_brand)
                  /\ normalize_article(r.article) = normalize_article(r.rq_article)
      IN /\ r.group \in {Str(ExactLabel), Str(CrossLabel)}
         /\ (r.group = Str(ExactLabel)) <=> same

\* a report with an exact row whose texts differ from the requested ones
\* before normalization, next to a cross row
C1_Witness ==
  /\ Built
  /\ \E k \in Idx(df_data) :
       /\ df_data[k].group = Str(ExactLabel)
       /\ df_data[k].brand # df_data[k].rq_brand
       /\ df_data[k].article # df_data[k].rq_article
  /\ \E k \in Idx(df_data) : df_data[k].group = Str(CrossLabel)

\* C2: in the offers table every cross row has an empty requested quantity,
\* and every exact row carries the quantity of the request it comes from (an
\* absent quantity being written as the empty text).
C2_QuantityLaw ==
  Built =>
    \A k \in Idx(df_data) :
      LET r == df_data[k]
      IN IF r.group = Str(ExactLabel)
         THEN r.rq_qty = (IF pairs[r.src].qty = None THEN EmptyStr ELSE pairs[r.src].qty)
         ELSE r.rq_qty = EmptyStr

\* a report with an exact row of quantity 2 and a cross row of a request that
\* asked for a quantity
C2_Witness ==
  /\ Built
  /\ \E k \in Idx(df_data) :
       df_data[k].group = Str(ExactLabel) /\ df_data[k].rq_qty = Num(2)
  /\ \E k \in Idx(df_data) :
       /\ df_data[k].group = Str(CrossLabel)
       /\ pairs[df_data[k].src].qty \in CellQtys

\* C3 as stated: a request without offers has exactly one unmatched row and
\* no offers row carries its requested brand and article.
C3_Original ==
  Built =>
    \A n \in ZeroOffer :
      /\ Cardinality({k \in Idx(df_errors) : df_errors[k].src = n}) = 1
      /\ \A k \in Idx(df_data) :
           ~(/\ df_data[k].rq_brand = ReqBrand(pairs[n])
             /\ df_data[k].rq_article = ReqArticle(pairs[n]))

\* C3: a request without offers has exactly one unmatched row, with its
\* brand, article and quantity, and no offers row comes from it; an offers
\* row carries its requested brand and article only when it comes from
\* another request of the run with the same brand and article.
C3_UnmatchedOnce ==
  Built =>
    \A n \in ZeroOffer :
      /\ Cardinality({k \in Idx(df_errors) : df_errors[k].src = n}) = 1
      /\ \A k \in Idx(df_errors) :
           df_errors[k].src = n =>
             /\ df_errors[k].rq_brand = ReqBrand(pairs[n])
             /\ df_errors[k].rq_article = ReqArticle(pairs[n])
             /\ df_errors[k].rq_qty = QtyCell(pairs[n].qty)
      /\ \A k \in Idx(df_data) :
           /\ df_data[k].src # n
           /\ (/\ df_data[k].rq_brand = ReqBrand(pairs[n])
               /\ df_data[k].rq_article = ReqArticle(pairs[n]))
                => /\ pairs[df_data[k].src] # pairs[n]
                   /\ ReqBrand(pairs[df_data[k].src]) = ReqBrand(pairs[n])
                   /\ ReqArticle(pairs[df_data[k].src]) = ReqArticle(pairs[n])

\* a run in which the GET of one request failed while offers came for
\* another request with the same brand and article
C3_Witness ==
  /\ Built
  /\ \E n \in ZeroOffer :
       /\ n \in failed
       /\ \E k \in Idx(df_data) :
            /\ df_data[k].rq_brand = ReqBrand(pairs[n])
            /\ df_data[k].rq_article = ReqArticle(pairs[n])

\* C5 as stated: no two requests of the run have the same normalized brand
\* and the same normalized article.
C5_Original ==
  pc = "loop" =>
    \A a, b \in Idx(pairs) :
      a < b =>
        ~(/\ normalize_article(ReqBrand(pairs[a])) = normalize_article(ReqBrand(pairs[b]))
          /\ normalize_article(ReqArticle(pairs[a])) = normalize_article(ReqArticle(pairs[b])))

\* C5: the requests of a run are pairwise distinct as (brand, article,
\* quantity) cell triples, and when the loop starts every triple of the sheet
\* that has a brand and an article is among them.
C5_DistinctTriples ==
  pc = "loop" =>
    /\ \A a, b \in Idx(pairs) : a < b => pairs[a] # pairs[b]
    /\ i = 0 =>
         \A k \in Idx(df_in.rows) :
           (df_in.rows[k].brand # NaN /\ df_in.rows[k].article # NaN)
             => \E a \in Idx(pairs) : pairs[a] = df_in.rows[k]

\* a sheet with the same triple twice, of which one request is kept
C5_Witness ==
  /\ pc = "loop"
  /\ i = 0
  /\ Len(pairs) = 1
  /\ \E a, b \in Idx(df_in.rows) :
       a < b /\ df_in.rows[a] = df_in.rows[b] /\ df_in.rows[a] = pairs[1]

\* C4 as stated: the resulting brand is brandFix if non-empty, else the raw
\* brand, else the requested brand, and the article likewise.
C4_Original ==
  pc = "extracted" =>
    /\ x_row.brand =
         (IF Truthy(x_item["brandFix"]) THEN x_item["brandFix"]
          ELSE IF Truthy(x_item["brand"]) THEN x_item["brand"]
          ELSE ReqBrand(x_rq))
    /\ x_row.article =
         (IF Truthy(x_item["numberFix"]) THEN x_item["numberFix"]
          ELSE IF Truthy(x_item["number"]) THEN x_item["number"]
          ELSE ReqArticle(x_rq))

\* C4: the resulting brand is the offer's raw brand if non-empty, else its
\* brandFix if non-empty, else the requested brand; the resulting article is
\* number, else numberFix, else the requested article.
C4_RawBeforeFix ==
  pc = "extracted" =>
    /\ x_row.brand =
         (IF Truthy(x_item["brand"]) THEN x_item["brand"]
          ELSE IF Truthy(x_item["brandFix"]) THEN x_item["brandFix"]
          ELSE ReqBrand(x_rq))
    /\ x_row.article =
         (IF Truthy(x_item["number"]) THEN x_item["number"]
          ELSE IF Truthy(x_item["numberFix"]) THEN x_item["numberFix"]
          ELSE ReqArticle(x_rq))

\* a row extracted from an offer that has a raw and a different corrected
\* brand, and an empty number next to a corrected number
C4_Witness ==
  /\ pc = "extracted"
  /\ Truthy(x_item["brand"])
  /\ Truthy(x_item["brandFix"])
  /\ x_item["brand"] # x_item["brandFix"]
  /\ x_item["number"] = EmptyStr
  /\ Truthy(x_item["numberFix"])

\* C6 as stated: when the loop is over a run of N >= 1 requests, the
\* message "processed N of N" is in the job log.
C6_Original ==
  (Built /\ Len(pairs) >= 1) =>
    \E k \in Idx(log) : log[k] = << "progress", Len(pairs), Len(pairs) >>

\* a row as the sheet shows it: without the history field
Visible(r) == [c \in DOMAIN r \ {"src"} |-> r[c]]
VisibleRows(rows) == [k \in Idx(rows) |-> Visible(rows[k])]

\* the orders in which the same rows can be accumulated
PermsOf(rows) == {[k \in Idx(rows) |-> rows[f[k]]] : f \in Permutations(Idx(rows))}

\* the rows before the sort: tagged, the quantity of the crosses cleared
Tagged(rows) == [k \in Idx(rows) |-> ClearQty(WithGroup(rows[k]))]

KeysOf(rows) == [k \in Idx(rows) |-> SortKey(rows[k])]

\* C7 as stated: any order of accumulation of the same rows gives the
\* identical offers table.
C7_Original ==
  Built =>
    \A p \in PermsOf(all_rows) : VisibleRows(BuildData(p)) = VisibleRows(df_data)

\* C7: any order of accumulation of the same rows gives the same sequence
\* of five-key tuples and the same rows as many times each: the offers table
\* is the same up to the order of the rows that tie on all five keys.
C7_OrderUpToTies ==
  Built =>
    \A p \in PermsOf(all_rows) :
      LET out == VisibleRows(BuildData(p))
          data == VisibleRows(df_data)
      IN /\ KeysOf(out) = KeysOf(data)
         /\ \A k \in Idx(out) :
              Cardinality({j \in Idx(out) : out[j] = out[k]})
                = Cardinality({j \in Idx(data) : data[j] = out[k]})

\* a report of two rows that tie on all five keys and differ in price
C7_Witness ==
  /\ Built
  /\ Len(df_data) = 2
  /\ SortKey(df_data[1]) = SortKey(df_data[2])
  /\ df_data[1].price # df_data[2].price

\* C8: in the offers table the five-key tuple of a row is never greater
\* than the tuple of the row after it.
C8_Ascending ==
  Built =>
    \A k \in Idx(df_data) :
      k < Len(df_data) => ~KeyLess(SortKey(df_data[k + 1]), SortKey(df_data[k]))

\* a report whose first row was accumulated after its second row, the two
\* differing in a sort key
C8_Witness ==
  /\ Built
  /\ Len(df_data) = 2
  /\ KeyLess(SortKey(df_data[1]), SortKey(df_data[2]))
  /\ Tagged(all_rows)[1] = df_data[2]
  /\ Tagged(all_rows)[2] = df_data[1]

\* the column sequence C9 names
C9_Columns ==
  << "rq_brand", "rq_article", "group", "brand", "article", "description",
     "rq_qty", "availability", "price", "deadline", "stock", "supplier",
     "supplier_full_name", "profile" >>

\* C9 as stated: the offers sheet has the same fourteen columns whether or
\* not there is an offer row.
C9_Original == Built => df_columns = C9_Columns

\* C10: a failed GET never ends the run: the failed request is in the
\* unmatched list, the run stays in the loop until the last request is
\* searched, and a run that returned after a failed GET has built its report
\* and gone through the serialization step.
C10_FailureIsolated ==
  /\ \A k \in failed : \E e \in Idx(errors_rows) : errors_rows[e].src = k
  /\ (failed # {} /\ pc \in {"loop", "search_wait"}) =>
       status = "in_progress" /\ i <= Len(pairs)
  /\ (failed # {} /\ pc \notin {"loop", "search_wait"}) =>
       /\ df_columns # << >>
       /\ i = Len(pairs)
       /\ \A k \in failed : \E e \in Idx(df_errors) : df_errors[e].src = k
       /\ pc = "returned" => log[Len(log)][1] \in {"ok", "save_failed"}

\* a run that wrote its report after the GET of its first request failed
\* and the second request was searched and answered
C10_Witness ==
  /\ pc = "returned"
  /\ status = "done"
  /\ 1 \in failed
  /\ \E k \in Idx(df_data) : df_data[k].src = 2

\* C11: a run in which a configuration variable is missing, or whose sheet
\* has no row, or whose sheet lacks a brand or an article column, returns
\* with status error and has issued no GET, neither the directory's nor a
\* search; and no GET is issued before these three checks are passed.
C11_AbortsBeforeNetwork ==
  LET fatal ==
        \/ (env # EnvVars /\ pc \notin {"created", "start"})
        \/ (df_in # Released /\ df_in.rows = << >>)
        \/ /\ df_in # Released
           /\ ~({"brand", "article"} \subseteq df_in.cols)
           /\ pc # "detect"
  IN /\ fatal => pc = "returned" /\ status = "error" /\ calls = 0 /\ inflight = {}
     /\ pc \in {"created", "start", "read_input", "detect", "load_dir"} => calls = 0

\* a run with the three variables set that returned on a sheet with rows and
\* no article column
C11_Witness ==
  /\ pc = "returned"
  /\ env = EnvVars
  /\ df_in # Released
  /\ df_in.rows # << >>
  /\ "article" \notin df_in.cols
  /\ status = "error"

\* the GET of the directory failed: no response, a client or server error
\* status, or a body that is not a JSON array
DirectoryFailed(resp) ==
  \/ resp.transport # "ok"
  \/ (resp.status >= 400 /\ resp.status < 600)
  \/ resp.body.j # "array"

\* C12 as stated, its first conclusion: when the GET of the directory gets
\* no response, a status other than 200 or a body that is not a list, the
\* mapping is empty.
C12_Original ==
  (/\ pc = "pairs"
   /\ \/ dir_resp.transport # "ok"
      \/ dir_resp.status # 200
      \/ dir_resp.body.j # "array")
    => distributors_map = << >>

\* C12: when the GET of the directory gets no response, a 4xx or 5xx status,
\* or a body that is not a JSON array, the mapping is empty and the run goes
\* on; whenever the mapping is empty every request is still searched, every
\* offer returned makes one row, and the supplier display name of every row
\* is the empty text.
C12_DirectoryFailureSoft ==
  /\ (pc = "pairs" /\ DirectoryFailed(dir_resp)) => distributors_map = << >>
  /\ pc \in {"dir_wait", "pairs", "loop", "search_wait", "write"} =>
       status = "in_progress"
  /\ (calls > 0 /\ pc \in {"write", "returned", "raised"}) =>
       /\ i = Len(pairs)
       /\ calls = Len(pairs) + 1
       /\ Len(df_data) = Len(all_rows)
  /\ returned = Len(all_rows)
  /\ distributors_map = << >> =>
       /\ \A k \in Idx(all_rows) : all_rows[k].supplier_full_name = EmptyStr
       /\ \A k \in Idx(df_data) : df_data[k].supplier_full_name = EmptyStr

\* a run whose directory GET was answered with status 500 (and a list in
\* the body): the mapping is empty and the run is about to form its records
C12_Witness ==
  /\ pc = "pairs"
  /\ dir_resp.transport = "ok"
  /\ dir_resp.status = 500
  /\ dir_resp.body.j = "array"
  /\ dir_resp.body.v # << >>
  /\ distributors_map = << >>
  /\ status = "in_progress"
  /\ df_in.rows # << >>

\* C13 as stated: call_search_articles returns the empty list when its GET
\* gets no response, a status other than 200, an object with an error code
\* or any body that is not a JSON array, and returns the body only when it
\* is a JSON array.
C13_Original ==
  pc = "searched" =>
    /\ (\/ s_resp.transport # "ok"
        \/ s_resp.status # 200
        \/ s_resp.body.j # "array") => s_items = << >>
    /\ s_items # << >> => (s_resp.body.j = "array" /\ s_items = s_resp.body.v)

\* C13: call_search_articles always returns a list of offers: the decoded
\* body, unchanged, when the GET is answered with a status outside 400..599
\* and a JSON array, and the empty list in every other case (no response, a
\* 4xx or 5xx status, a body that is not JSON, an object with or without an
\* error code, any other value).
C13_NeverRaises ==
  pc = "searched" =>
    /\ s_items \in Seq(PipeItems)
    /\ IF /\ s_resp.transport = "ok"
          /\ ~(s_resp.status >= 400 /\ s_resp.status < 600)
          /\ s_resp.body.j = "array"
       THEN s_items = s_resp.body.v
       ELSE s_items = << >>

\* a call answered 404 with two offers in the body: nothing is returned
C13_Witness ==
  /\ pc = "searched"
  /\ s_resp.transport = "ok"
  /\ s_resp.status = 404
  /\ s_resp.body.j = "array"
  /\ Len(s_resp.body.v) = 2
  /\ s_items = << >>

\* the position at which a row is first seen in the sheet
FirstSeen(rows, r) == CHOOSE k \in Idx(rows) : rows[k] = r /\ \A j \in 1..(k - 1) : rows[j] # r

\* C14: when the loop starts, the requests are the rows of the sheet that
\* have a brand and an article, each exact (brand, article, quantity) triple
\* once, in the order in which the triples are first seen in the sheet.
C14_FirstSeenOrder ==
  (pc = "loop" /\ i = 0) =>
    /\ \A a \in Idx(pairs) :
         /\ pairs[a].brand # NaN
         /\ pairs[a].article # NaN
         /\ \E k \in Idx(df_in.rows) : df_in.rows[k] = pairs[a]
         /\ Cardinality({b \in Idx(pairs) : pairs[b] = pairs[a]}) = 1
    /\ \A k \in Idx(df_in.rows) :
         (\E a \in Idx(pairs) : pairs[a] = df_in.rows[k])
           <=> (df_in.rows[k].brand # NaN /\ df_in.rows[k].article # NaN)
    /\ \A a, b \in Idx(pairs) :
         a < b => FirstSeen(df_in.rows, pairs[a]) < FirstSeen(df_in.rows, pairs[b])

\* a sheet whose first row has brand "b " and whose second row has brand
\* "B": two requests, in the order of the sheet
C14_Witness ==
  /\ pc = "loop"
  /\ i = 0
  /\ Len(df_in.rows) = 2
  /\ df_in.rows[1].brand = Str(<< 98, 32 >>)
  /\ df_in.rows[2].brand = Str(<< 66 >>)
  /\ pairs = df_in.rows

\* C15: the unmatched sheet has one row for every request that got no
\* offer and none for a request that got an offer, and its rows follow the
\* order in which the requests were searched.
C15_DiscoveryOrder ==
  Built =>
    /\ \A a, b \in Idx(df_errors) : a < b => df_errors[a].src < df_errors[b].src
    /\ \A a \in Idx(df_errors) : df_errors[a].src \in ZeroOffer
    /\ \A n \in ZeroOffer : \E a \in Idx(df_errors) : df_errors[a].src = n

\* a report whose unmatched sheet lists the first request, whose GET
\* failed, before the second, which was answered with an empty array
C15_Witness ==
  /\ Built
  /\ Len(df_errors) = 2
  /\ failed = {1}
  /\ df_errors[1].src = 1
  /\ df_errors[2].src = 2
  /\ df_errors[1].rq_qty # df_errors[2].rq_qty

\* C16: at most one GET of a run is outstanding, and it is the last one
\* issued: the GET of the directory (the first of the run) is over before a
\* search is sent, and the GET of a search is over before the next is sent.
\* A GET is outstanding exactly while the run waits in requests.get.
C16_OneOutstanding ==
  /\ Cardinality(inflight) <= 1
  /\ inflight \subseteq {calls}
  /\ inflight # {} <=> pc \in {"dir_wait", "search_wait"}
  /\ pc = "dir_wait" => calls = 1
  /\ pc = "search_wait" => calls = i + 2

\* the GET of the second request is outstanding; the directory's and the
\* first request's are over
C16_Witness ==
  /\ pc = "search_wait"
  /\ i = 1
  /\ calls = 3
  /\ inflight = {3}

\* C17 as stated: when step 8 ends without the workbook written, the job
\* status becomes error, result_file stays unset, and the job log is the log
\* so far followed by the message of the serialization error.
C17_Original ==
  [][(pc = "write" /\ ~workbook') =>
       /\ status' = "error"
       /\ result_file' = FALSE
       /\ log' = Append(log, << "save_failed", 0, 0 >>)]_vars

\* a field of an offer is present: it is there and is not the empty text
Present(x) == x # None /\ x # EmptyStr

\* the first present of three fields, the empty text when none is
FirstPresent(a, b, c) ==
  IF Present(a) THEN a ELSE IF Present(b) THEN b ELSE IF Present(c) THEN c ELSE EmptyStr

\* C18 as stated: the price of the row is the first present of price,
\* priceOut, priceInSiteCurrency and its availability the first present of
\* availability, rest, qty, a present 0 counting as present.
C18_Original ==
  pc = "extracted" =>
    /\ x_row.price =
         FirstPresent(x_item["price"], x_item["priceOut"], x_item["priceInSiteCurrency"])
    /\ x_row.availability =
         FirstPresent(x_item["availability"], x_item["rest"], x_item["qty"])

\* what C19 says of a single state: the job is new until tender_step1 marks
\* it, a returned run left it done or error, and it is done exactly when the
\* workbook was written and result_file set
C19_StatusOfState ==
  /\ status \in {"new", "in_progress", "done", "error"}
  /\ status = "new" <=> pc = "created"
  /\ pc = "returned" => status \in {"done", "error"}
  /\ status = "done" <=> (workbook /\ result_file)
  /\ result_file <=> workbook

\* C19: the status of a job only ever moves from new to in_progress and
\* from in_progress to done or error; when run_abcp_pricing has returned it
\* is done or error, and it is done exactly when the workbook was written
\* and result_file was set.
C19_Lifecycle ==
  /\ []C19_StatusOfState
  /\ [][status' # status =>
          \/ (status = "new" /\ status' = "in_progress")
          \/ (status = "in_progress" /\ status' \in {"done", "error"})]_vars

\* a run that returned done: every request answered, the workbook written
C19_Witness ==
  /\ pc = "returned"
  /\ status = "done"
  /\ result_file
  /\ workbook
  /\ failed = {}
  /\ df_errors = << >>
  /\ Len(df_data) = 2

\* C20 as stated: no LoginCode row logs a user in more than once, however
\* the login_step2 requests interleave.
C20_Original ==
  \A k \in Idx(login_codes) :
    Cardinality({j \in Idx(logins) : logins[j][2] = k}) <= 1

====
